---- MODULE Spec2Model ----
(***************************************************************************)
(* Model of the camera-card import tool: update_camera_dir_gui.py (the GUI *)
(* program) and update_camera_dir.py (the earlier command line script).    *)
(*                                                                         *)
(* Strings are sequences of character codes (ASCII), so that slicing,      *)
(* concatenation, lower-casing and Python's lexicographic comparison are   *)
(* computed as the code computes them.  A path is the sequence of its      *)
(* backslash-separated components (what str.split('\\') returns).          *)
(***************************************************************************)
EXTENDS Integers, Sequences, FiniteSets, TLC

(***************************************************************************)
(* Bounds of the model.                                                    *)
(***************************************************************************)
\* number of distinct capture seconds a source file can carry
MaxTs == 2
\* number of calendar days a behaviour spans
MaxDay == 2
\* number of copies in a behaviour that fail with an I/O error
MaxFaults == 1

(***************************************************************************)
(* Characters and string helpers.                                          *)
(***************************************************************************)
\* length of the timestamp prefix of an archive file name
TsLen == 15
Dash == 45
Dot == 46
Underscore == 95
Digit(n) == 48 + n
IsDigit(ch) == ch >= 48 /\ ch <= 57

Min(a, b) == IF a < b THEN a ELSE b

\* Python slice s[lo:hi] (0-based, hi exclusive, clipped to the length)
Slice(s, lo, hi) == SubSeq(s, lo + 1, Min(hi, Len(s)))

\* Python str < str: lexicographic by character code, a proper prefix first
RECURSIVE StrLessFrom(_, _, _)
StrLessFrom(a, b, i) ==
    IF i > Len(a) THEN i <= Len(b)
    ELSE IF i > Len(b) THEN FALSE
    ELSE IF a[i] = b[i] THEN StrLessFrom(a, b, i + 1)
    ELSE a[i] < b[i]

StrLess(a, b) == StrLessFrom(a, b, 1)

StrGreater(a, b) == StrLess(b, a)

\* str.lower() on ASCII
Lower(s) == [i \in 1..Len(s) |-> IF s[i] >= 65 /\ s[i] <= 90 THEN s[i] + 32 ELSE s[i]]

\* the least string of a non-empty set: sorted(S)[0]
StrMin(S) == CHOOSE x \in S : \A y \in S : y = x \/ StrLess(x, y)

\* the greatest string of a non-empty set: sorted(S)[-1]
StrMax(S) == CHOOSE x \in S : \A y \in S : y = x \/ StrLess(y, x)

\* sorted(S, reverse=True) of a set of distinct strings
RECURSIVE SortedReverse(_)
SortedReverse(S) ==
    IF S = {} THEN << >>
    ELSE LET m == StrMax(S) IN << m >> \o SortedReverse(S \ {m})

\* os.path.splitext(name)[1]: the suffix from the last dot, '' if there is
\* none or the only dot leads the name
SplitExt(name) ==
    LET dots == {i \in 2..Len(name) : name[i] = Dot}
    IN IF dots = {} THEN << >>
       ELSE LET last == CHOOSE i \in dots : \A j \in dots : j <= i
            IN SubSeq(name, last, Len(name))

\* two decimal digits, zero padded (strftime %m %d %H %M %S)
Fmt2(n) == << Digit((n \div 10) % 10), Digit(n % 10) >>

(***************************************************************************)
(* Names used by the program and by the modelled environment.              *)
(***************************************************************************)
\* '19700101-010101_placeholder'
SentinelFile ==
    << 49,57,55,48,48,49,48,49,45,48,49,48,49,48,49,
       95,112,108,97,99,101,104,111,108,100,101,114 >>
\* 'DCIM'
DCIM == << 68,67,73,77 >>
\* '100NIKON'
CamDir == << 49,48,48,78,73,75,79,78 >>
\* 'A.JPG', 'B.JPG', ...: the k-th camera file name
BaseName(k) == << 64 + k, 46, 74, 80, 71 >>
\* drive roots 'G:', 'H:', 'J:'
DriveG == << 71, 58 >>
DriveH == << 72, 58 >>
DriveJ == << 74, 58 >>

\* EXIF DateTimeOriginal 'YYYY:MM:DD HH:MM:SS' of the k-th capture second:
\* '2023:08:01 10:10:0k'
ExifTime(k) ==
    << 50,48,50,51,58,48,56,58,48,49,32,49,48,58,49,48,58 >> \o Fmt2(k)

\* str(date.today()) on day d of the month: '2023-08-dd'
DateStr(d) == << 50,48,50,51,45,48,56,45 >> \o Fmt2(d)


(***************************************************************************)
(* The cameras (my_camera_data.camera_info, in list order) and the state.  *)
(***************************************************************************)
Cams == {1, 2}
CamOrder == << 1, 2 >>

VARIABLES
    archive,          \* per camera: dated directory name -> (file name -> content)
    mounted,          \* the mounted source volumes, in drive letter order
    day,              \* today's day of the month
    program,          \* the program in use: "gui", "cli" or "del-no-vid"
    started,          \* gui: setup_repositories has run; cli: the script has run
    cam,              \* the run-time keys of the camera_info dictionaries
    getcard_enabled,  \* state of the 'Get Cam Cards' button
    go_enabled,       \* state of the 'GO' button
    log,              \* what the last copy run did, in order
    faults,           \* number of copies that the file system has made fail
    ran,              \* history: a copy run without such a failure has taken place
    failed,           \* history: the destinations whose copy failed
    repository_common_path,  \* gui: os.getenv(REPOSITORY_COMMON_PATH_ENV)
    exited,           \* gui: the process has ended in sys.exit
    startingDir,      \* del-no-vid: entry name -> entry of the starting directory
    trash,            \* del-no-vid: the directories sent to the trash
    del_raised        \* del-no-vid: the last run ended in an exception

vars == << archive, mounted, day, program, started, cam, getcard_enabled,
           go_enabled, log, faults, ran, failed, repository_common_path, exited,
           startingDir, trash, del_raised >>

\* what no step of the two import programs changes
aside == << repository_common_path, startingDir, trash, del_raised >>

\* the import programs are run with nothing in the starting directory of
\* del-no-vid
NoEntries == [n \in {} |-> "file"]
AsideInit ==
    /\ startingDir = NoEntries
    /\ trash = {}
    /\ del_raised = FALSE

\* os.getenv returns None when the environment variable is not defined
None == "None"
\* the value of the environment variable: the path of the repository
CommonPath == "repository"

(***************************************************************************)
(* Source volumes.  A source file has the directory it sits in (relative   *)
(* to the volume root), its name, its EXIF DateTimeOriginal value ('' when *)
(* the tag is absent) and its creation time on the volume, in seconds      *)
(* since midnight of 2023-08-01.                                           *)
(***************************************************************************)
\* the file of capture second t is written to the card one second later
CtimeOf(t) == (10 * 60 + 10) * 60 + t + 1

\* datetime.fromtimestamp(ctime).strftime('%Y%m%d-%H%M%S')
FormatCtime(ctime) ==
    << 50,48,50,51,48,56,48,49 >> \o << Dash >>
        \o Fmt2(ctime \div 3600) \o Fmt2((ctime \div 60) % 60) \o Fmt2(ctime % 60)

SrcFile(k, t) ==
    [dir |-> << DCIM, CamDir >>, name |-> BaseName(k), exif |-> ExifTime(t),
     ctime |-> CtimeOf(t)]

\* a volume holds at most one file of each name in the camera directory
FileSets(names) ==
    { S \in SUBSET { SrcFile(k, t) : k \in names, t \in 1..MaxTs } :
        \A f, g \in S : f.name = g.name => f = g }

Volume(c, root, files) == [cam |-> c, root |-> << root >>, files |-> files]

\* the directory dir of a backup drive, holding a copy of camera c's card
BackupVolume(c, drive, dir, files) == [cam |-> c, root |-> << drive, dir >>, files |-> files]

\* camera 1 has no card or a card G: with one file; camera 2 has two cards,
\* H: with any of 'A.JPG' and 'B.JPG' and J: with or without 'A.JPG'
MountedChoices ==
    { v1 \o << Volume(2, DriveH, fh), Volume(2, DriveJ, fj) >> :
        v1 \in { << >>, << Volume(1, DriveG, { SrcFile(1, 1) }) >> },
        fh \in FileSets({1, 2}),
        fj \in FileSets({1}) }

\* the content of a copy: the volume it was read from, and whether the copy
\* ran to its end
Content(root, whole) == [from |-> root, whole |-> whole]

\* an archive file left by an earlier import from a card that is gone:
\* '20230801-10100t_old.jpg' in directory '2023-08-00'
OldName(t) ==
    << 50,48,50,51,48,56,48,49,45,49,48,49,48 >> \o Fmt2(t) \o << 95,111,108,100,46,106,112,103 >>
OldArchive(t) == (DateStr(0) :> (OldName(t) :> Content(<< DriveH >>, TRUE)))
EmptyArchive == [d \in {} |-> << >>]

NoCam == [processed |-> FALSE, card_path_list |-> << >>, today_dir |-> << >>,
          files_with_times |-> << >>, has_last_file |-> FALSE,
          repository_last_file |-> << >>]

Init ==
    /\ mounted \in MountedChoices
    /\ \E a2 \in { EmptyArchive } \cup { OldArchive(t) : t \in 1..MaxTs } :
           archive = (1 :> EmptyArchive) @@ (2 :> a2)
    /\ day = 1
    /\ program \in { "gui", "cli" }
    /\ started = FALSE
    /\ cam = [c \in Cams |-> NoCam]
    /\ getcard_enabled = TRUE
    /\ go_enabled = FALSE
    /\ log = << >>
    /\ faults = 0
    /\ ran = FALSE
    /\ failed = {}
    /\ repository_common_path = CommonPath
    /\ exited = FALSE
    /\ AsideInit

(***************************************************************************)
(* Pure functions of the program.                                          *)
(***************************************************************************)
\* 'YYYY:MM:DD HH:MM:SS' --> 'YYYYMMDD-HHMMSS'
exiftime_to_file_prefix(exif_time) ==
    Slice(exif_time, 0, 4) \o Slice(exif_time, 5, 7) \o Slice(exif_time, 8, 10)
        \o << Dash >>
        \o Slice(exif_time, 11, 13) \o Slice(exif_time, 14, 16) \o Slice(exif_time, 17, 19)

\* the extensions of my_camera_data.PICTURE_EXTENSIONS
PICTURE_EXTENSIONS ==
    { << 46,106,112,103 >>, << 46,74,80,71 >>, << 46,110,101,102 >>, << 46,78,69,70 >>,
      << 46,110,114,119 >>, << 46,78,82,87 >>, << 46,116,105,102 >>, << 46,84,73,70 >> }

\* index constants of a files_with_times tuple, 1-based
FILENAME == 1
TIMESTAMP == 2

\* list.index(x): the first position of x, 0-based; -1 stands for ValueError
IndexOf(seq, x) ==
    IF \E i \in 1..Len(seq) : seq[i] = x
    THEN (CHOOSE i \in 1..Len(seq) : seq[i] = x /\ \A j \in 1..(i - 1) : seq[j] # x) - 1
    ELSE -1

\* the sort key of get_cam_cards_info: timestamp + path.split('\\')[3]
SortKey(element) == element[TIMESTAMP] \o element[FILENAME][4]

\* list.sort(reverse=True, key=...): a stable sort, equal keys keep their order
RECURSIVE InsertByKey(_, _)
InsertByKey(sorted, x) ==
    IF sorted = << >> THEN << x >>
    ELSE IF StrLess(SortKey(Head(sorted)), SortKey(x))
         THEN << x >> \o sorted
         ELSE << Head(sorted) >> \o InsertByKey(Tail(sorted), x)

RECURSIVE SortReverseByKey(_, _)
SortReverseByKey(list, done) ==
    IF list = << >> THEN done
    ELSE SortReverseByKey(Tail(list), InsertByKey(done, Head(list)))

\* re.match("^[0-9_-]*$", test_file[0:15])
MatchesTimestampPattern(test_file) ==
    \A i \in 1..Len(Slice(test_file, 0, TsLen)) :
        IsDigit(test_file[i]) \/ test_file[i] = Underscore \/ test_file[i] = Dash

\* the new name without the call of lower()
NewFilenameKeepCase(file_and_time) ==
    LET path == file_and_time[FILENAME]
    IN file_and_time[TIMESTAMP] \o << Underscore >> \o path[Len(path)]

\* (timestamp + '_' + base_filename).lower()
NewFilename(file_and_time) ==
    LET path == file_and_time[FILENAME]
        base_filename == path[Len(path)]
    IN Lower(file_and_time[TIMESTAMP] \o << Underscore >> \o base_filename)

(***************************************************************************)
(* get_cam_cards_info: find the volumes of each camera, walk them, and     *)
(* sort each camera's files_with_times list.                               *)
(***************************************************************************)
\* the orders in which os.walk and os.listdir may present a set of files
Orders(S) ==
    { q \in [1..Cardinality(S) -> S] : \A i, j \in 1..Cardinality(S) : q[i] = q[j] => i = j }

\* the catalog entry of one walked file: a sequence of zero or one tuples
CatalogFile(root, f) ==
    LET parsed_dir == root \o f.dir
        dcim_pos == IndexOf(parsed_dir, DCIM)
        file_full_path == parsed_dir \o << f.name >>
    IN IF dcim_pos # Len(parsed_dir) - 2 THEN << >>
       ELSE IF SplitExt(f.name) \in PICTURE_EXTENSIONS
            THEN IF f.exif # << >>
                 THEN << << file_full_path, exiftime_to_file_prefix(f.exif) >> >>
                 ELSE << >>
            ELSE << << file_full_path, FormatCtime(f.ctime) >> >>

RECURSIVE CatalogWalk(_, _)
CatalogWalk(root, walk) ==
    IF walk = << >> THEN << >>
    ELSE CatalogFile(root, Head(walk)) \o CatalogWalk(root, Tail(walk))

\* the volumes whose label matches camera c's card_pattern, in drive order
CardsOf(c) == SelectSeq(mounted, LAMBDA v : v.cam = c /\ Len(v.root) = 1)

\* the directories of backup drives whose name matches camera c's
\* card_pattern, in drive order
BackupsOf(c) == SelectSeq(mounted, LAMBDA v : v.cam = c /\ Len(v.root) = 2)

\* camera c's card_path_list: the cards, then the backup directories
VolumesOf(c) == CardsOf(c) \o BackupsOf(c)

RECURSIVE CatalogVolumes(_, _)
CatalogVolumes(vols, walks) ==
    IF vols = << >> THEN << >>
    ELSE CatalogWalk(Head(vols).root, walks[Head(vols).root])
             \o CatalogVolumes(Tail(vols), walks)

\* the camera dictionary after get_cam_cards_info; walks gives, per volume
\* root, the order in which os.walk lists its files
CatalogCam(c, walks) ==
    LET vols == VolumesOf(c)
    IN IF vols = << >>
       THEN [cam[c] EXCEPT !.processed = TRUE]
       ELSE [cam[c] EXCEPT
                !.processed = TRUE,
                !.card_path_list = @ \o [i \in 1..Len(vols) |-> vols[i].root],
                !.today_dir = IF @ = << >> THEN DateStr(day) ELSE @,
                !.files_with_times =
                    SortReverseByKey(cam[c].files_with_times \o CatalogVolumes(vols, walks), << >>)]

get_cam_cards_info(walks) == [c \in Cams |-> CatalogCam(c, walks)]

\* directory d is above directory e
IsAbove(d, e) == Len(d) < Len(e) /\ SubSeq(e, 1, Len(d)) = d

\* os.walk is top-down: the files of a directory come before the files of
\* the directories below it; within a directory, and between directories of
\* which neither is above the other, the order is the file system's
WalkOrders(S) ==
    { q \in Orders(S) :
        \A i, j \in 1..Cardinality(S) : IsAbove(q[i].dir, q[j].dir) => i < j }

\* every way the walks of the mounted volumes can be ordered
WalkChoices ==
    { w \in [{ mounted[i].root : i \in 1..Len(mounted) } ->
                UNION { WalkOrders(mounted[i].files) : i \in 1..Len(mounted) }] :
        \A i \in 1..Len(mounted) : w[mounted[i].root] \in WalkOrders(mounted[i].files) }

(***************************************************************************)
(* The archive on disk.                                                    *)
(***************************************************************************)
EmptyDir == [n \in {} |-> Content(<< >>, TRUE)]

\* an entry of the archive root that os.listdir cannot list: a plain file,
\* or a directory that the user may not read.  Such entries occur only in
\* the start states of SpecUnlistable, which runs the GUI program.
NotADir == (<< >> :> "not a directory")

\* os.path.exists(cam['new_repository_dir'])
TodayDirExists(a, cm) == cm.today_dir \in DOMAIN a

\* os.mkdir
Mkdir(a, d) == a @@ (d :> EmptyDir)

\* os.rmdir of an empty directory
Rmdir(a, d) == [x \in DOMAIN a \ {d} |-> a[x]]

\* a copy that stops before the end of the source file
Copy2Truncated(a, d, name, content) ==
    [a EXCEPT ![d] = (name :> [content EXCEPT !.whole = FALSE]) @@ @]

\* shutil.copy2(src, dest): writes dest, replacing a file already there
Copy2(a, d, name, content) == [a EXCEPT ![d] = (name :> content) @@ @]

\* an entry of the log; the 'compare' entries record the comparisons of the
\* copy loop, the others are the lines the program writes
Event(ev, c, i, name) == [ev |-> ev, cam |-> c, idx |-> i, name |-> name]

(***************************************************************************)
(* make_today_dir                                                          *)
(***************************************************************************)
make_today_dir(arch) ==
    [c \in Cams |->
        IF cam[c].today_dir # << >> /\ ~TodayDirExists(arch[c], cam[c])
        THEN Mkdir(arch[c], cam[c].today_dir)
        ELSE arch[c]]

(***************************************************************************)
(* find_repository_last_files                                              *)
(***************************************************************************)
\* the loop over the directories of one camera, after the skipped one
RECURSIVE ScanDirs(_, _)
ScanDirs(dirlist, a) ==
    IF dirlist = << >> THEN [kind |-> "none", file |-> << >>]
    ELSE LET filelist == DOMAIN a[Head(dirlist)]
         IN IF a[Head(dirlist)] = NotADir THEN [kind |-> "OSError", file |-> << >>]
            ELSE IF filelist = {} THEN ScanDirs(Tail(dirlist), a)
            ELSE LET filtered_filelist == { f \in filelist : MatchesTimestampPattern(f) }
                 IN IF filtered_filelist = {}
                    THEN [kind |-> "IndexError", file |-> << >>]
                    ELSE [kind |-> "found", file |-> StrMax(filtered_filelist)]

\* the body of the loop over the cameras, from the i-th camera on
RECURSIVE FindLastFrom(_, _)
FindLastFrom(i, cams) ==
    IF i > Len(CamOrder) THEN [cam |-> cams, raised |-> FALSE]
    ELSE LET c == CamOrder[i]
             dirlist == SortedReverse(DOMAIN archive[c])
             skip_dir == TodayDirExists(archive[c], cams[c])
             r == ScanDirs(IF skip_dir THEN Tail(dirlist) ELSE dirlist, archive[c])
         IN IF cams[c].today_dir = << >> THEN FindLastFrom(i + 1, cams)
            ELSE IF dirlist = << >>
                 THEN [cam |-> [cams EXCEPT ![c].has_last_file = TRUE,
                                            ![c].repository_last_file = SentinelFile],
                       raised |-> FALSE]
            ELSE IF r.kind \in { "IndexError", "OSError" }
                 THEN [cam |-> cams, raised |-> TRUE]
            ELSE IF r.kind = "found"
                 THEN FindLastFrom(i + 1, [cams EXCEPT ![c].has_last_file = TRUE,
                                                       ![c].repository_last_file = r.file])
            ELSE FindLastFrom(i + 1, cams)

find_repository_last_files(cams) == FindLastFrom(1, cams)

\* the frontier timestamp taken from the placeholder instead of the
\* camera's last repository file
LastFileTimestampEpoch(cm) == Slice(SentinelFile, 0, TsLen)

(***************************************************************************)
(* copy_and_rename.  The loop state st carries the archive, the log, the   *)
(* number of shutil.copy2 calls made so far and whether an exception has   *)
(* left the function.  fail_at is the copy2 call that raises (0: none) and *)
(* partial tells whether that call had already created its destination.    *)
(***************************************************************************)
\* cam['repository_last_file'][0:15]
LastFileTimestamp(cm) == Slice(cm.repository_last_file, 0, TsLen)

\* faulty variants of the comparison, to test that the properties below
\* depend on it: '>=' in place of '>', and a comparison of the dates only
IsNewerOrSame(file_and_time, last_file_timestamp) ==
    ~StrLess(file_and_time[TIMESTAMP], last_file_timestamp)

IsNewerByDate(file_and_time, last_file_timestamp) ==
    StrGreater(Slice(file_and_time[TIMESTAMP], 0, 8), Slice(last_file_timestamp, 0, 8))

\* file_and_time[TIMESTAMP] > last_file_timestamp
IsNewer(file_and_time, last_file_timestamp) ==
    StrGreater(file_and_time[TIMESTAMP], last_file_timestamp)

\* faulty variant of the existence test: the destination is never found
DestNeverExists(a, d, new_filename) == FALSE

\* os.path.exists(dest_path)
DestExists(a, d, new_filename) == new_filename \in DOMAIN a[d]

\* one pass of the loop body for the i-th file of camera c
CopyOne(st, c, i, fail_at, partial) ==
    LET cm == cam[c]
        file_and_time == cm.files_with_times[i]
        new_filename == NewFilename(file_and_time)
        content == Content(<< file_and_time[FILENAME][1] >>, TRUE)
        compared == Append(st.log, Event("compare", c, i, << >>))
    IN IF ~cm.has_last_file
       THEN [st EXCEPT !.raised = TRUE,
                       !.log = Append(@, Event("KeyError", c, i, << >>))]
       ELSE IF ~IsNewer(file_and_time, LastFileTimestamp(cm))
       THEN [st EXCEPT !.log = compared]
       ELSE IF DestExists(st.arch[c], cm.today_dir, new_filename)
       THEN [st EXCEPT !.log = Append(compared, Event("exists", c, i, new_filename))]
       ELSE IF st.ncopy + 1 = fail_at
       THEN [st EXCEPT
                !.raised = TRUE,
                !.ncopy = @ + 1,
                !.arch = IF partial
                         THEN [@ EXCEPT ![c] = Copy2(@, cm.today_dir, new_filename,
                                                      [content EXCEPT !.whole = FALSE])]
                         ELSE @,
                !.log = Append(compared, Event("OSError", c, i, new_filename))]
       ELSE [st EXCEPT
                !.ncopy = @ + 1,
                !.copied = @ + 1,
                !.arch = [@ EXCEPT ![c] = Copy2(@, cm.today_dir, new_filename, content)],
                !.log = Append(compared, Event("copied", c, i, new_filename))]

\* the loop over the files of camera c, from the i-th on, and the line
\* '{} files copied for {}' after it
RECURSIVE CopyFiles(_, _, _, _, _)
CopyFiles(st, c, i, fail_at, partial) ==
    IF st.raised THEN st
    ELSE IF i > Len(cam[c].files_with_times)
         THEN [st EXCEPT !.log = Append(@, Event("files copied", c, st.copied, << >>))]
         ELSE CopyFiles(CopyOne(st, c, i, fail_at, partial), c, i + 1, fail_at, partial)

\* the loop over the cameras, from the k-th on
RECURSIVE CopyCams(_, _, _, _)
CopyCams(st, k, fail_at, partial) ==
    IF st.raised \/ k > Len(CamOrder) THEN st
    ELSE CopyCams(CopyFiles([st EXCEPT !.copied = 0], CamOrder[k], 1, fail_at, partial),
                  k + 1, fail_at, partial)

copy_and_rename(arch, fail_at, partial) ==
    CopyCams([arch |-> arch, log |-> << >>, ncopy |-> 0, copied |-> 0, raised |-> FALSE],
             1, fail_at, partial)

\* go_clicked without the clean-up: every directory is kept
keep_empty_repos_dirs(arch) == arch

(***************************************************************************)
(* clean_up_empty_repos_dirs                                               *)
(***************************************************************************)
clean_up_empty_repos_dirs(arch) ==
    [c \in Cams |->
        IF /\ cam[c].today_dir # << >>
           /\ TodayDirExists(arch[c], cam[c])
           /\ DOMAIN arch[c][cam[c].today_dir] = {}
        THEN Rmdir(arch[c], cam[c].today_dir)
        ELSE arch[c]]

(***************************************************************************)
(* The callbacks of the GUI program.                                       *)
(***************************************************************************)
\* setup_repositories without the test of its first argument
setup_repositories_unchecked ==
    /\ program = "gui"
    /\ ~exited
    /\ ~started
    /\ started' = TRUE
    /\ cam' = [c \in Cams |->
                  [cam[c] EXCEPT !.processed = FALSE, !.files_with_times = << >>]]
    /\ UNCHANGED << exited, aside >>
    /\ UNCHANGED << archive, mounted, day, program, getcard_enabled, go_enabled, log,
                    faults, ran, failed >>

\* window.after(GUI_USER_ALERT_DELAY, setup_repositories, ...): without the
\* environment variable the program shows an error and exits; otherwise the
\* common path exists and every camera has its repository base
setup_repositories ==
    /\ program = "gui"
    /\ ~exited
    /\ ~started
    /\ IF repository_common_path = None
       THEN /\ exited' = TRUE
            /\ UNCHANGED << started, cam >>
       ELSE /\ started' = TRUE
            /\ cam' = [c \in Cams |->
                          [cam[c] EXCEPT !.processed = FALSE, !.files_with_times = << >>]]
            /\ UNCHANGED exited
    /\ UNCHANGED aside
    /\ UNCHANGED << archive, mounted, day, program, getcard_enabled, go_enabled, log,
                    faults, ran, failed >>

\* the sources cataloged at every click
CatalogAgain(walks) == get_cam_cards_info(walks)

\* if not cam[0]['processed']: get_cam_cards_info() runs at the first click
\* that reaches it, later clicks keep the dictionaries
CatalogOnce(walks) ==
    IF ~cam[CamOrder[1]].processed THEN get_cam_cards_info(walks) ELSE cam

\* the 'Get Cam Cards' button.  Before setup_repositories the dictionaries
\* have no 'processed' key and the callback ends with a KeyError.
getcard_clicked ==
    /\ program = "gui"
    /\ ~exited
    /\ getcard_enabled
    /\ IF ~started
       THEN UNCHANGED << cam, getcard_enabled, go_enabled >>
       ELSE \E walks \in WalkChoices :
            \E cataloged \in { CatalogOnce(walks) } :
            \E r \in { find_repository_last_files(cataloged) } :
               /\ cam' = r.cam
               /\ getcard_enabled' = IF r.raised THEN getcard_enabled ELSE FALSE
               /\ go_enabled' = IF r.raised THEN go_enabled ELSE TRUE
    /\ UNCHANGED << archive, mounted, day, program, started, log, faults, ran, failed >>
    /\ UNCHANGED << exited, aside >>

\* the filter menu: the trace calls card_info_filter_changed with three
\* arguments, the function takes none, so the call ends with a TypeError
\* before its body runs
card_info_filter_changed ==
    /\ program = "gui"
    /\ ~exited
    /\ UNCHANGED vars

\* the destinations of the copies that a run has logged as failed
FailedCopies(run_log) ==
    { [cam |-> run_log[i].cam, name |-> run_log[i].name] :
        i \in { j \in 1..Len(run_log) : run_log[j].ev = "OSError" } }

\* the 'GO' button with the action menu on 'Action: Copy Files'
go_clicked ==
    /\ program = "gui"
    /\ ~exited
    /\ go_enabled
    /\ \E made \in { make_today_dir(archive) } :
       \E attempts \in { copy_and_rename(made, 0, FALSE).ncopy } :
       \E fail_at \in 0..(IF faults < MaxFaults THEN attempts ELSE 0) :
       \E partial \in (IF fail_at = 0 THEN { FALSE } ELSE BOOLEAN) :
       \E r \in { copy_and_rename(made, fail_at, partial) } :
          /\ archive' = IF r.raised THEN r.arch ELSE clean_up_empty_repos_dirs(r.arch)
          /\ log' = r.log
          /\ faults' = IF fail_at > 0 THEN faults + 1 ELSE faults
          /\ ran' = (ran \/ fail_at = 0)
          /\ failed' = failed \cup FailedCopies(r.log)
    /\ UNCHANGED << mounted, day, program, started, cam, getcard_enabled, go_enabled >>
    /\ UNCHANGED << exited, aside >>

(***************************************************************************)
(* The command line script update_camera_dir.py: one run from its first    *)
(* line to its last, or to the exception that ends it.                     *)
(***************************************************************************)
\* picture_extensions of the script
picture_extensions ==
    { << 46,106,112,103 >>, << 46,74,80,71 >>, << 46,110,101,102 >>, << 46,78,69,70 >>,
      << 46,110,114,119 >>, << 46,78,82,87 >> }

\* the tuples of one walked file; a picture without the EXIF tag ends the
\* script with a KeyError
ScriptCatalogFile(root, f) ==
    LET file_full_path == root \o f.dir \o << f.name >>
    IN IF SplitExt(f.name) \in picture_extensions
       THEN IF f.exif # << >>
            THEN [raised |-> FALSE,
                  list |-> << << file_full_path, exiftime_to_file_prefix(f.exif) >> >>]
            ELSE [raised |-> TRUE, list |-> << >>]
       ELSE [raised |-> FALSE, list |-> << << file_full_path, FormatCtime(f.ctime) >> >>]

RECURSIVE ScriptCatalogWalk(_, _)
ScriptCatalogWalk(root, walk) ==
    IF walk = << >> THEN [raised |-> FALSE, list |-> << >>]
    ELSE LET h == ScriptCatalogFile(root, Head(walk))
             t == ScriptCatalogWalk(root, Tail(walk))
         IN [raised |-> h.raised \/ t.raised, list |-> h.list \o t.list]

RECURSIVE ScriptCatalogVolumes(_, _)
ScriptCatalogVolumes(vols, walks) ==
    IF vols = << >> THEN [raised |-> FALSE, list |-> << >>]
    ELSE LET h == ScriptCatalogWalk(Head(vols).root, walks[Head(vols).root])
             t == ScriptCatalogVolumes(Tail(vols), walks)
         IN [raised |-> h.raised \/ t.raised, list |-> h.list \o t.list]

\* list.sort(reverse=True, key=lambda element: element[1])
RECURSIVE InsertByTimestamp(_, _)
InsertByTimestamp(sorted, x) ==
    IF sorted = << >> THEN << x >>
    ELSE IF StrLess(Head(sorted)[TIMESTAMP], x[TIMESTAMP])
         THEN << x >> \o sorted
         ELSE << Head(sorted) >> \o InsertByTimestamp(Tail(sorted), x)

RECURSIVE SortReverseByTimestamp(_, _)
SortReverseByTimestamp(list, done) ==
    IF list = << >> THEN done
    ELSE SortReverseByTimestamp(Tail(list), InsertByTimestamp(done, Head(list)))

\* the dictionaries after the drive scan and the walk of the cards
ScriptCatalog(walks) ==
    [c \in Cams |->
        LET vols == CardsOf(c)
        IN IF vols = << >> THEN NoCam
           ELSE [NoCam EXCEPT
                    !.card_path_list = [i \in 1..Len(vols) |-> vols[i].root],
                    !.today_dir = DateStr(day),
                    !.files_with_times =
                        SortReverseByTimestamp(ScriptCatalogVolumes(vols, walks).list, << >>)]]

ScriptCatalogRaised(walks) ==
    \E c \in Cams : ScriptCatalogVolumes(CardsOf(c), walks).raised

\* os.mkdir of today's directory of every camera that has a card
ScriptMakeDirs(arch, cams) ==
    [c \in Cams |->
        IF cams[c].today_dir # << >> /\ ~TodayDirExists(arch[c], cams[c])
        THEN Mkdir(arch[c], cams[c].today_dir)
        ELSE arch[c]]

\* the backward traversal of the dated directories, today's included
RECURSIVE ScriptScanDirs(_, _)
ScriptScanDirs(dirlist, a) ==
    IF dirlist = << >> THEN [kind |-> "none", file |-> << >>]
    ELSE LET filelist == DOMAIN a[Head(dirlist)]
         IN IF filelist = {} THEN ScriptScanDirs(Tail(dirlist), a)
            ELSE [kind |-> "found", file |-> StrMax(filelist)]

ScriptFindLast(arch, cams) ==
    [c \in Cams |->
        LET r == ScriptScanDirs(SortedReverse(DOMAIN arch[c]), arch[c])
        IN IF cams[c].today_dir # << >> /\ r.kind = "found"
           THEN [cams[c] EXCEPT !.has_last_file = TRUE, !.repository_last_file = r.file]
           ELSE cams[c]]

\* the copy loop of one camera from its i-th file on; it stops at the first
\* file that is not newer than the last repository file
RECURSIVE ScriptCopyFiles(_, _, _, _, _, _)
ScriptCopyFiles(st, cams, c, i, fail_at, partial) ==
    IF st.raised \/ i > Len(cams[c].files_with_times) THEN st
    ELSE LET cm == cams[c]
             file_and_time == cm.files_with_times[i]
             new_filename == NewFilename(file_and_time)
             content == Content(<< file_and_time[FILENAME][1] >>, TRUE)
             compared == Append(st.log, Event("compare", c, i, << >>))
             written == IF DestExists(st.arch[c], cm.today_dir, new_filename)
                        THEN "overwrote" ELSE "copied"
         IN IF ~cm.has_last_file
            THEN [st EXCEPT !.raised = TRUE,
                            !.log = Append(@, Event("KeyError", c, i, << >>))]
            ELSE IF ~IsNewer(file_and_time, LastFileTimestamp(cm))
            THEN [st EXCEPT !.log = compared]
            ELSE IF st.ncopy + 1 = fail_at
            THEN [st EXCEPT
                     !.raised = TRUE,
                     !.ncopy = @ + 1,
                     !.arch = IF partial
                              THEN [@ EXCEPT ![c] = Copy2(@, cm.today_dir, new_filename,
                                                           [content EXCEPT !.whole = FALSE])]
                              ELSE @,
                     !.log = Append(compared, Event("OSError", c, i, new_filename))]
            ELSE ScriptCopyFiles(
                     [st EXCEPT
                         !.ncopy = @ + 1,
                         !.arch = [@ EXCEPT ![c] = Copy2(@, cm.today_dir, new_filename, content)],
                         !.log = Append(compared, Event(written, c, i, new_filename))],
                     cams, c, i + 1, fail_at, partial)

RECURSIVE ScriptCopyCams(_, _, _, _, _)
ScriptCopyCams(st, cams, k, fail_at, partial) ==
    IF st.raised \/ k > Len(CamOrder) THEN st
    ELSE ScriptCopyCams(ScriptCopyFiles(st, cams, CamOrder[k], 1, fail_at, partial),
                        cams, k + 1, fail_at, partial)

ScriptCopyLoop(arch, cams, fail_at, partial) ==
    ScriptCopyCams([arch |-> arch, log |-> << >>, ncopy |-> 0, copied |-> 0, raised |-> FALSE],
                   cams, 1, fail_at, partial)

update_camera_dir ==
    /\ program = "cli"
    /\ ~started
    /\ started' = TRUE
    /\ \E walks \in WalkChoices :
          IF ScriptCatalogRaised(walks)
          THEN UNCHANGED << archive, cam, log, faults, failed >>
          ELSE \E cataloged \in { ScriptCatalog(walks) } :
               \E made \in { ScriptMakeDirs(archive, cataloged) } :
               \E cams \in { ScriptFindLast(made, cataloged) } :
               \E attempts \in { ScriptCopyLoop(made, cams, 0, FALSE).ncopy } :
               \E fail_at \in 0..(IF faults < MaxFaults THEN attempts ELSE 0) :
               \E partial \in (IF fail_at = 0 THEN { FALSE } ELSE BOOLEAN) :
               \E r \in { ScriptCopyLoop(made, cams, fail_at, partial) } :
                  /\ archive' = r.arch
                  /\ cam' = cams
                  /\ log' = r.log
                  /\ faults' = IF fail_at > 0 THEN faults + 1 ELSE faults
                  /\ failed' = failed \cup FailedCopies(r.log)
    /\ UNCHANGED << mounted, day, program, getcard_enabled, go_enabled, ran >>
    /\ UNCHANGED << exited, aside >>

(***************************************************************************)
(* The environment: the program is closed and started again, possibly on a *)
(* later day.                                                              *)
(***************************************************************************)
Restart ==
    /\ \E d \in day..MaxDay : day' = d
    /\ started' = FALSE
    /\ cam' = [c \in Cams |-> NoCam]
    /\ getcard_enabled' = TRUE
    /\ go_enabled' = FALSE
    /\ log' = << >>
    /\ exited' = FALSE
    /\ UNCHANGED << archive, mounted, program, faults, ran, failed >>
    /\ UNCHANGED aside

Next ==
    \/ setup_repositories
    \/ getcard_clicked
    \/ card_info_filter_changed
    \/ go_clicked
    \/ update_camera_dir
    \/ Restart

Spec == Init /\ [][Next]_vars

(***************************************************************************)
(* Vocabulary of the properties.                                           *)
(***************************************************************************)
\* the last run logged event ev for the i-th record of camera c
Logged(lg, ev, c, i) ==
    \E k \in 1..Len(lg) : lg[k].ev = ev /\ lg[k].cam = c /\ lg[k].idx = i

\* the events of a call of shutil.copy2
WriteEvents == { "copied", "overwrote", "OSError" }

\* the i-th record of camera c was compared with the frontier
Compared(lg, c, i) == Logged(lg, "compare", c, i)

\* copy_and_rename ran to its last line
RunCompleted(lg) ==
    /\ lg # << >>
    /\ lg[Len(lg)].ev = "files copied"
    /\ lg[Len(lg)].cam = CamOrder[Len(CamOrder)]

\* the capture timestamp of a record is greater than the camera's frontier
Passes(cm, i) ==
    StrGreater(cm.files_with_times[i][TIMESTAMP], Slice(cm.repository_last_file, 0, TsLen))

AllPass(cm) == \A i \in 1..Len(cm.files_with_times) : Passes(cm, i)

Records(c) == 1..Len(cam[c].files_with_times)

DestName(c, i) == NewFilename(cam[c].files_with_times[i])

\* name is a file of some dated directory of camera c
InArchive(a, c, name) == \E d \in DOMAIN a[c] : name \in DOMAIN a[c][d]

\* name is a file of today's directory of camera c
InToday(a, c, name) ==
    /\ cam[c].today_dir \in DOMAIN a[c]
    /\ name \in DOMAIN a[c][cam[c].today_dir]

\* a step of the 'GO' button
GoStep == program = "gui" /\ go_enabled /\ go_enabled'

(***************************************************************************)
(* C1: a run never copies a record whose capture timestamp is less than or *)
(* equal to the frontier timestamp: every copy2 call of a run is for a     *)
(* record that is greater than the frontier, and every file that a step    *)
(* writes into the archive carries a timestamp greater than the frontier   *)
(* of its camera, in both programs.                                        *)
(***************************************************************************)
C1_NothingAtOrBelowFrontierCopied ==
    [][ /\ \A k \in 1..Len(log') :
              log'[k].ev \in WriteEvents =>
                  /\ cam'[log'[k].cam].has_last_file
                  /\ Passes(cam'[log'[k].cam], log'[k].idx)
        /\ \A c \in Cams : \A d \in DOMAIN archive'[c] : \A n \in DOMAIN archive'[c][d] :
              (\/ d \notin DOMAIN archive[c]
               \/ n \notin DOMAIN archive[c][d]
               \/ archive'[c][d][n] # archive[c][d][n])
              => /\ cam'[c].has_last_file
                 /\ StrGreater(Slice(n, 0, TsLen), Slice(cam'[c].repository_last_file, 0, TsLen))
      ]_vars

\* a run copied a record and left out a record whose timestamp equals the
\* frontier and whose destination name is nowhere in the archive
C1_Witness ==
    \E c \in Cams : \E i, j \in Records(c) :
        /\ cam[c].has_last_file
        /\ cam[c].files_with_times[i][TIMESTAMP] = Slice(cam[c].repository_last_file, 0, TsLen)
        /\ Compared(log, c, i)
        /\ ~InArchive(archive, c, DestName(c, i))
        /\ Logged(log, "copied", c, j)

C3_SecondRunChangesNothing ==
    [][ (GoStep /\ ran /\ faults = 0 /\ faults' = 0) =>
            /\ archive' = archive
            /\ \A k \in 1..Len(log') : log'[k].ev \notin WriteEvents
      ]_vars

(***************************************************************************)
(* C4, as stated: after the first record of a camera that is not greater   *)
(* than the frontier, the run handles no further record of that camera.    *)
(***************************************************************************)
C4_ScanStopsAtFirstOld ==
    \A k \in 1..Len(log) :
        (log[k].ev = "compare" /\ ~Passes(cam[log[k].cam], log[k].idx)) =>
            \A l \in (k + 1)..Len(log) :
                log[l].cam = log[k].cam => log[l].ev = "files copied"

(***************************************************************************)
(* C5, as stated: no step replaces or removes a file of the archive, and   *)
(* no copy2 call of a run writes to a destination that exists.             *)
(***************************************************************************)
C5_NoOverwrite ==
    [][ /\ \A c \in Cams : \A d \in DOMAIN archive[c] : \A n \in DOMAIN archive[c][d] :
              /\ d \in DOMAIN archive'[c]
              /\ n \in DOMAIN archive'[c][d]
              /\ archive'[c][d][n] = archive[c][d][n]
        /\ \A k \in 1..Len(log') : log'[k].ev # "overwrote"
      ]_vars

C7_FailedCopyRetried ==
    (/\ program = "gui"
     /\ RunCompleted(log)
     /\ \A k \in 1..Len(log) : log[k].ev # "OSError")
    => \A f \in failed :
          \E d \in DOMAIN archive[f.cam] :
              /\ f.name \in DOMAIN archive[f.cam][d]
              /\ archive[f.cam][d][f.name].whole

(***************************************************************************)
(* C8, as stated: a run of the GUI program in which a copy fails goes on   *)
(* with the remaining records and cameras and reaches its last line.       *)
(***************************************************************************)
C8_FailureDoesNotEndRun ==
    (program = "gui" /\ \E k \in 1..Len(log) : log[k].ev = "OSError") => RunCompleted(log)

(***************************************************************************)
(* C9, as stated: once the frontier locator has returned, every camera     *)
(* with a source volume whose archive has no dated directory has the       *)
(* sentinel as its frontier, and every record of its batch is greater than *)
(* the sentinel.                                                           *)
(***************************************************************************)
C9_EmptyArchiveSentinel ==
    (program = "gui" /\ go_enabled) =>
        \A c \in Cams :
            (cam[c].today_dir # << >> /\ DOMAIN archive[c] = {}) =>
                /\ cam[c].has_last_file
                /\ cam[c].repository_last_file = SentinelFile
                /\ AllPass(cam[c])

\* the directories that find_repository_last_files scans for camera c
ScannedDirs(c) ==
    LET dirlist == SortedReverse(DOMAIN archive[c])
    IN IF TodayDirExists(archive[c], cam[c]) THEN Tail(dirlist) ELSE dirlist

(***************************************************************************)
(* C10, as stated: the frontier locator ends without an exception, and     *)
(* when it has returned and no copy run has yet changed the archive, every *)
(* camera with a source volume and with dated directories of which no      *)
(* scanned one holds a conforming file has the sentinel as its frontier.   *)
(***************************************************************************)
C10_NoConformingFileSentinel ==
    /\ (program = "gui" /\ cam[CamOrder[1]].processed) => go_enabled
    /\ (program = "gui" /\ go_enabled /\ log = << >>) =>
          \A c \in Cams :
              (/\ cam[c].today_dir # << >>
               /\ DOMAIN archive[c] # {}
               /\ \A k \in 1..Len(ScannedDirs(c)) :
                      \A n \in DOMAIN archive[c][ScannedDirs(c)[k]] :
                          ~MatchesTimestampPattern(n))
              => /\ cam[c].has_last_file
                 /\ cam[c].repository_last_file = SentinelFile

(***************************************************************************)
(* Archives with entries that the tool did not write: a directory that     *)
(* Windows has given a thumbnail cache, a file with a short name of        *)
(* digits, a directory dated after today.  SpecLocator starts both         *)
(* programs on such archives.                                              *)
(***************************************************************************)
\* 'Thumbs.db'
ThumbsDb == << 84,104,117,109,98,115,46,100,98 >>
\* '99'
ShortName == << 57,57 >>
\* '2023-08-09', a directory name that sorts after every day of the model
LaterDir == DateStr(9)

LocatorFiles == { OldName(t) : t \in 1..MaxTs } \cup { ThumbsDb, ShortName }

LocatorDirs == { DateStr(0), DateStr(1), LaterDir }

\* the possible contents of a dated directory: at most two files
LocatorDirContents ==
    { [n \in S |-> Content(<< DriveH >>, TRUE)] :
        S \in { T \in SUBSET LocatorFiles : Cardinality(T) <= 2 } }

LocatorArchives == UNION { [D -> LocatorDirContents] : D \in SUBSET LocatorDirs }

InitLocator ==
    /\ mounted = << Volume(2, DriveH, { SrcFile(1, MaxTs) }) >>
    /\ \E a2 \in LocatorArchives : archive = (1 :> EmptyArchive) @@ (2 :> a2)
    /\ day = 1
    /\ program \in { "gui", "cli" }
    /\ started = FALSE
    /\ cam = [c \in Cams |-> NoCam]
    /\ getcard_enabled = TRUE
    /\ go_enabled = FALSE
    /\ log = << >>
    /\ faults = 0
    /\ ran = FALSE
    /\ failed = {}
    /\ repository_common_path = CommonPath
    /\ exited = FALSE
    /\ AsideInit

NextLocator ==
    \/ setup_repositories
    \/ getcard_clicked
    \/ card_info_filter_changed
    \/ go_clicked
    \/ update_camera_dir

SpecLocator == InitLocator /\ [][NextLocator]_vars

\* the first 15 characters of a name are 8 digits, '-', 6 digits
Conforming(n) ==
    /\ Len(n) >= TsLen
    /\ \A i \in 1..8 : IsDigit(n[i])
    /\ n[9] = Dash
    /\ \A i \in 10..TsLen : IsDigit(n[i])

\* the frontier locator of the GUI program has returned and no copy run has
\* changed the archive since
Located == program = "gui" /\ go_enabled /\ log = << >>

(***************************************************************************)
(* C11, as stated: when the frontier locator has selected a file, its name *)
(* is conforming and is the last conforming name of a directory of the     *)
(* camera's archive.                                                       *)
(***************************************************************************)
C11_FrontierMarkerConforming ==
    Located =>
        \A c \in Cams :
            (cam[c].has_last_file /\ cam[c].repository_last_file # SentinelFile) =>
                /\ Conforming(cam[c].repository_last_file)
                /\ \E d \in DOMAIN archive[c] :
                      /\ cam[c].repository_last_file \in DOMAIN archive[c][d]
                      /\ \A n \in DOMAIN archive[c][d] :
                            Conforming(n) => ~StrLess(cam[c].repository_last_file, n)

\* the dated directories of camera c, today's excluded, that hold a
\* conforming file
ConformingDirs(c) ==
    { d \in DOMAIN archive[c] \ { cam[c].today_dir } :
        \E n \in DOMAIN archive[c][d] : Conforming(n) }

(***************************************************************************)
(* C12, as stated: once Get Cam Cards has cataloged the sources, for every *)
(* camera with a source whose archive has a directory other than today's   *)
(* with a conforming file, the locator has returned and the frontier is a  *)
(* file of the greatest such directory.                                    *)
(***************************************************************************)
C12_FrontierFromLatestConformingDir ==
    (program = "gui" /\ cam[CamOrder[1]].processed /\ log = << >>) =>
        \A c \in Cams :
            (cam[c].today_dir # << >> /\ ConformingDirs(c) # {}) =>
                /\ go_enabled
                /\ cam[c].has_last_file
                /\ cam[c].repository_last_file \in
                       DOMAIN archive[c][StrMax(ConformingDirs(c))]

\* a step in which a program locates the frontiers
LocatorStep ==
    \/ program = "gui" /\ started /\ getcard_enabled /\ cam' # cam
    \/ program = "cli" /\ ~started /\ started'

\* what the program's scan finds in the directories other than today's
ScanWithoutToday(c) ==
    LET dirlist == SortedReverse(DOMAIN archive[c] \ { cam'[c].today_dir })
    IN IF program = "gui" THEN ScanDirs(dirlist, archive[c])
       ELSE ScriptScanDirs(dirlist, archive[c])

(***************************************************************************)
(* C13, as stated: the locator leaves out today's directory and no other:  *)
(* the frontier it sets is the file that its scan finds in the directories *)
(* other than today's, and when that scan finds none, the frontier is not  *)
(* set from a file at all.                                                 *)
(***************************************************************************)
C13_ExactlyTodayExcluded ==
    [][ LocatorStep =>
          \A c \in Cams :
              cam'[c].today_dir # << >> =>
                  LET r == ScanWithoutToday(c)
                  IN /\ r.kind = "found" =>
                           /\ cam'[c].has_last_file
                           /\ cam'[c].repository_last_file = r.file
                     /\ r.kind = "none" =>
                           \/ ~cam'[c].has_last_file
                           \/ cam'[c].repository_last_file = SentinelFile
      ]_vars

(***************************************************************************)
(* C14, as stated: in the GUI program a step that computes the frontier of *)
(* a camera finds the camera's today directory already created.            *)
(***************************************************************************)
C14_FrontierAfterTodayDir ==
    [][ program = "gui" =>
          \A c \in Cams :
              (~cam[c].has_last_file /\ cam'[c].has_last_file) =>
                  TodayDirExists(archive[c], cam'[c])
      ]_vars

\* the log entries of the records for which copy_and_rename has read the
\* archive: os.path.exists(dest_path) is evaluated for every record that
\* passed the frontier comparison
DestChecked == { "exists", "copied", "OSError" }

(***************************************************************************)
(* C15, as stated: within a run of the GUI program no read of the archive  *)
(* (here the destination-existence check) follows a write to the archive   *)
(* (here a file copy).                                                     *)
(***************************************************************************)
C15_NoReadAfterWrite ==
    program = "gui" =>
        \A i, j \in DOMAIN log :
            (i < j /\ log[i].ev = "copied") => log[j].ev \notin DestChecked

(***************************************************************************)
(* Sources of every kind that the cataloging code distinguishes: pictures  *)
(* with and without an EXIF capture time, a video, files above and below   *)
(* the camera directories, a second camera directory, and a backup drive   *)
(* with a directory of the camera's name.  SpecCatalog starts both         *)
(* programs on such sources.                                               *)
(***************************************************************************)
\* 'E:', a drive whose label matches backup_drive_info['drive_pattern']
DriveE == << 69, 58 >>
\* 'z50', its level 1 directory matching camera 2's card_pattern
BackupDir == << 122, 53, 48 >>
\* '101NIKON'
CamDir2 == << 49,48,49,78,73,75,79,78 >>
\* 'THM', a directory inside a camera directory
SubDir == << 84, 72, 77 >>
\* 'M.MOV'
MovName == << 77, 46, 77, 79, 86 >>
\* 'N.JPG', a picture whose EXIF data has no DateTimeOriginal tag
NoExifFile == [SrcFile(14, 1) EXCEPT !.exif = << >>]

CardFiles ==
    { SrcFile(k, t) : k \in {1, 2}, t \in 1..MaxTs }
        \cup { [SrcFile(1, 1) EXCEPT !.dir = << DCIM, CamDir2 >>],
               [SrcFile(1, 1) EXCEPT !.name = MovName, !.exif = << >>],
               NoExifFile,
               [SrcFile(1, 1) EXCEPT !.dir = << DCIM >>],
               [SrcFile(1, 1) EXCEPT !.dir = << DCIM, CamDir, SubDir >>] }

BackupFiles == { SrcFile(k, t) : k \in {1, 2}, t \in 1..MaxTs }

\* at most two files, no two of the same path
CatalogFileSets(F) ==
    { S \in SUBSET F :
        /\ Cardinality(S) <= 2
        /\ \A f, g \in S : (f.dir = g.dir /\ f.name = g.name) => f = g }

\* a card H: of camera 2, with or without a backup drive E:
CatalogMounted ==
    { b \o << Volume(2, DriveH, fh) >> :
        fh \in CatalogFileSets(CardFiles),
        b \in { << >> } \cup
              { << BackupVolume(2, DriveE, BackupDir, fb) >> :
                    fb \in CatalogFileSets(BackupFiles) } }

InitCatalog ==
    /\ mounted \in CatalogMounted
    /\ \E a2 \in { EmptyArchive, OldArchive(1) } :
           archive = (1 :> EmptyArchive) @@ (2 :> a2)
    /\ day = 1
    /\ program \in { "gui", "cli" }
    /\ started = FALSE
    /\ cam = [c \in Cams |-> NoCam]
    /\ getcard_enabled = TRUE
    /\ go_enabled = FALSE
    /\ log = << >>
    /\ faults = 0
    /\ ran = FALSE
    /\ failed = {}
    /\ repository_common_path = CommonPath
    /\ exited = FALSE
    /\ AsideInit

NextCatalog ==
    \/ setup_repositories
    \/ getcard_clicked
    \/ go_clicked
    \/ update_camera_dir

SpecCatalog == InitCatalog /\ [][NextCatalog]_vars

\* the sources of camera c have been cataloged and sorted
Cataloged(c) == cam[c].today_dir # << >>

\* the batch of camera c: its sorted list of records
Batch(c) == cam[c].files_with_times

\* the base file name of a record: the last component of its path
BaseOf(rec) == rec[FILENAME][Len(rec[FILENAME])]

(***************************************************************************)
(* C16, as stated: in a cataloged batch, of any two adjacent records the   *)
(* earlier has the greater timestamp, or the same timestamp and a base     *)
(* file name that is greater or equal.                                     *)
(***************************************************************************)
C16_BatchDescending ==
    \A c \in Cams :
        Cataloged(c) =>
            \A i \in 1..(Len(Batch(c)) - 1) :
                \/ StrLess(Batch(c)[i + 1][TIMESTAMP], Batch(c)[i][TIMESTAMP])
                \/ /\ Batch(c)[i + 1][TIMESTAMP] = Batch(c)[i][TIMESTAMP]
                   /\ ~StrLess(BaseOf(Batch(c)[i]), BaseOf(Batch(c)[i + 1]))

\* the batch of camera c that the program in use builds when the walks of
\* the volumes list the files in the orders w
BatchOf(c, w) ==
    IF program = "gui"
    THEN SortReverseByKey(CatalogVolumes(VolumesOf(c), w), << >>)
    ELSE ScriptCatalog(w)[c].files_with_times

(***************************************************************************)
(* C17, as stated: the batch of a camera is the one that every order of    *)
(* the directory walks leads to.                                           *)
(***************************************************************************)
C17_OrderIndependentOfWalk ==
    \A c \in Cams :
        Cataloged(c) => \A w \in WalkChoices : BatchOf(c, w) = Batch(c)

\* the log entries of the records that have been copied
CopiedEvents == { "copied", "overwrote" }

\* ch is an upper case letter
IsUpper(ch) == ch >= 65 /\ ch <= 90

CatalogDone ==
    \/ program = "gui" /\ cam[CamOrder[1]].processed
    \/ program = "cli" /\ started

\* the sources of camera c that the program in use catalogs
SourcesOf(c) == IF program = "gui" THEN VolumesOf(c) ELSE CardsOf(c)

\* file f sits in a camera directory, one level below DCIM
AtValidLevel(f) == Len(f.dir) = 2 /\ f.dir[1] = DCIM

\* the records of file f of volume v in the batch of camera c
RecordsOf(c, v, f) ==
    { i \in Records(c) : Batch(c)[i][FILENAME] = v.root \o f.dir \o << f.name >> }

(***************************************************************************)
(* C19, as stated: once the sources are cataloged, every file one level    *)
(* below DCIM has a record in its camera's batch, and the record of a      *)
(* picture without an EXIF capture time carries the file's creation time.  *)
(***************************************************************************)
C19_EveryValidFileCataloged ==
    CatalogDone =>
        \A c \in Cams : \A k \in 1..Len(SourcesOf(c)) :
            \A f \in SourcesOf(c)[k].files :
                AtValidLevel(f) =>
                    \E i \in RecordsOf(c, SourcesOf(c)[k], f) :
                        f.exif = << >> => Batch(c)[i][TIMESTAMP] = FormatCtime(f.ctime)

(***************************************************************************)
(* C20, as stated: once the GUI program has cataloged the sources, a file  *)
(* has a record in its camera's batch if and only if it sits one level     *)
(* below DCIM.                                                             *)
(***************************************************************************)
C20_CatalogedIffValidLevel ==
    (program = "gui" /\ CatalogDone) =>
        \A c \in Cams : \A k \in 1..Len(VolumesOf(c)) :
            \A f \in VolumesOf(c)[k].files :
                RecordsOf(c, VolumesOf(c)[k], f) # {} <=> AtValidLevel(f)

(***************************************************************************)
(* The GUI program started with or without the environment variable that   *)
(* names the repository.                                                   *)
(***************************************************************************)
InitSetup ==
    /\ mounted \in MountedChoices
    /\ \E a2 \in { EmptyArchive } \cup { OldArchive(t) : t \in 1..MaxTs } :
           archive = (1 :> EmptyArchive) @@ (2 :> a2)
    /\ day = 1
    /\ program = "gui"
    /\ started = FALSE
    /\ cam = [c \in Cams |-> NoCam]
    /\ getcard_enabled = TRUE
    /\ go_enabled = FALSE
    /\ log = << >>
    /\ faults = 0
    /\ ran = FALSE
    /\ failed = {}
    /\ repository_common_path \in { None, CommonPath }
    /\ exited = FALSE
    /\ AsideInit

NextSetup ==
    \/ setup_repositories
    \/ getcard_clicked
    \/ card_info_filter_changed
    \/ go_clicked
    \/ Restart

SpecSetup == InitSetup /\ [][NextSetup]_vars

(***************************************************************************)
(* C21: when the environment variable is not defined, no source is ever    *)
(* cataloged, no archive is scanned for a frontier, the GO button is never *)
(* enabled and nothing is copied, whatever the order of the callback and   *)
(* the clicks.                                                             *)
(***************************************************************************)
C21_NoScanWithoutCommonPath ==
    (program = "gui" /\ repository_common_path = None) =>
        /\ ~started
        /\ ~go_enabled
        /\ log = << >>
        /\ \A c \in Cams : cam[c] = NoCam

\* the callback has found the variable undefined and has ended the process
\* on the program's second day of use
C21_Witness ==
    /\ program = "gui"
    /\ repository_common_path = None
    /\ exited
    /\ day > 1

(***************************************************************************)
(* Archive roots with an entry that cannot be listed.  SpecUnlistable      *)
(* starts the GUI program on them.                                         *)
(***************************************************************************)
\* 'notes.txt', a plain file that the user has put under the archive root
StrayEntry == << 110,111,116,101,115,46,116,120,116 >>

\* the directory of an earlier day: absent, holding a file of the tool, or
\* not readable; the stray entry: absent or present; today's directory:
\* absent, empty, or holding a file of the tool
UnlistableArchives ==
    { old @@ stray @@ today :
        old \in { EmptyArchive, DateStr(0) :> NotADir }
                    \cup { OldArchive(t) : t \in 1..MaxTs },
        stray \in { EmptyArchive, StrayEntry :> NotADir },
        today \in { EmptyArchive, DateStr(1) :> EmptyDir,
                    DateStr(1) :> (OldName(1) :> Content(<< DriveH >>, TRUE)) } }

InitUnlistable ==
    /\ mounted \in MountedChoices
    /\ \E a2 \in UnlistableArchives : archive = (1 :> EmptyArchive) @@ (2 :> a2)
    /\ day = 1
    /\ program = "gui"
    /\ started = FALSE
    /\ cam = [c \in Cams |-> NoCam]
    /\ getcard_enabled = TRUE
    /\ go_enabled = FALSE
    /\ log = << >>
    /\ faults = 0
    /\ ran = FALSE
    /\ failed = {}
    /\ repository_common_path = CommonPath
    /\ exited = FALSE
    /\ AsideInit

NextUnlistable ==
    \/ setup_repositories
    \/ getcard_clicked
    \/ go_clicked

SpecUnlistable == InitUnlistable /\ [][NextUnlistable]_vars

\* the entries of camera c's archive root that cannot be listed
Unlistable(c) == { d \in DOMAIN archive[c] : archive[c][d] = NotADir }

(***************************************************************************)
(* C22, as stated: once Get Cam Cards has cataloged the sources of a       *)
(* camera whose archive root has an entry that cannot be listed and an     *)
(* older directory, not today's, with a conforming file, the locate        *)
(* operation has completed and the camera has a frontier.                  *)
(***************************************************************************)
C22_UnlistableEntryPassedOver ==
    (program = "gui" /\ cam[CamOrder[1]].processed /\ log = << >>) =>
        \A c \in Cams :
            ( /\ Cataloged(c)
              /\ \E u \in Unlistable(c) :
                    \E d \in DOMAIN archive[c] \ (Unlistable(c) \cup { cam[c].today_dir }) :
                        /\ StrLess(d, u)
                        /\ \E n \in DOMAIN archive[c][d] : Conforming(n) ) =>
                /\ go_enabled
                /\ cam[c].has_last_file

\* the log entry i of a run is the last one that wrote its destination
LastWrite(lg, i) ==
    /\ lg[i].ev \in CopiedEvents
    /\ \A j \in DOMAIN lg :
          (j > i /\ lg[j].cam = lg[i].cam /\ lg[j].name = lg[i].name) =>
              lg[j].ev \notin WriteEvents

(***************************************************************************)
(* C23: no step of either program changes a source volume; no step adds,   *)
(* removes or changes a dated directory other than today's directory of a  *)
(* camera with sources; and after a run the file of every copied record is *)
(* in today's directory of the record's camera, with the whole content of  *)
(* the source file on the volume of that camera.                           *)
(***************************************************************************)
C23_WritesOnlyTodayDir ==
    [][ /\ mounted' = mounted
        /\ \A c \in Cams :
              \A d \in (DOMAIN archive[c] \cup DOMAIN archive'[c]) \ { cam'[c].today_dir } :
                  /\ d \in DOMAIN archive[c]
                  /\ d \in DOMAIN archive'[c]
                  /\ archive'[c][d] = archive[c][d]
        /\ log' # log =>
              \A i \in DOMAIN log' :
                  LastWrite(log', i) =>
                      LET c == log'[i].cam
                          rec == cam'[c].files_with_times[log'[i].idx]
                      IN /\ cam'[c].today_dir \in DOMAIN archive'[c]
                         /\ log'[i].name \in DOMAIN archive'[c][cam'[c].today_dir]
                         /\ archive'[c][cam'[c].today_dir][log'[i].name] =
                                Content(<< rec[FILENAME][1] >>, TRUE)
                         /\ \E k \in 1..Len(mounted) :
                               /\ mounted[k].cam = c
                               /\ mounted[k].root[1] = rec[FILENAME][1]
      ]_vars

\* a run has copied a file into today's directory of a camera whose archive
\* holds an earlier directory with a file
C23_Witness ==
    \E c \in Cams :
        /\ \E i \in DOMAIN log : log[i].cam = c /\ LastWrite(log, i)
        /\ \E d \in DOMAIN archive[c] \ { cam[c].today_dir } : DOMAIN archive[c][d] # {}

(***************************************************************************)
(* The archive over the days: both archives start empty and only the two   *)
(* programs change them; between two runs the user may put other cards     *)
(* into the readers.                                                       *)
(***************************************************************************)
\* camera 1 has no card; camera 2 has a card H: with any of 'A.JPG' and
\* 'B.JPG'
DaysMounted == { << Volume(2, DriveH, fh) >> : fh \in FileSets({1, 2}) }

InitDays ==
    /\ mounted \in DaysMounted
    /\ archive = [c \in Cams |-> EmptyArchive]
    /\ day = 1
    /\ program \in { "gui", "cli" }
    /\ started = FALSE
    /\ cam = [c \in Cams |-> NoCam]
    /\ getcard_enabled = TRUE
    /\ go_enabled = FALSE
    /\ log = << >>
    /\ faults = MaxFaults - 1     \* one copy at most is made to fail
    /\ ran = FALSE
    /\ failed = {}
    /\ repository_common_path = CommonPath
    /\ exited = FALSE
    /\ AsideInit

\* before a program is run, the user puts other cards into the readers
SwapCards ==
    /\ ~started
    /\ log = << >>
    /\ \E m \in DaysMounted \ { mounted } : mounted' = m
    /\ UNCHANGED << archive, day, program, started, cam, getcard_enabled, go_enabled,
                    log, faults, ran, failed, exited, aside >>

NextDays ==
    \/ setup_repositories
    \/ getcard_clicked
    \/ go_clicked
    \/ update_camera_dir
    \/ Restart
    \/ SwapCards

SpecDays == InitDays /\ [][NextDays]_vars

\* the first 15 characters of an archive file name
Prefix(n) == Slice(n, 0, TsLen)

(***************************************************************************)
(* C24: in the archive of a camera no file name is in two dated            *)
(* directories.                                                            *)
(***************************************************************************)
C24_NamesUniqueAcrossDirs ==
    \A c \in Cams : \A d1, d2 \in DOMAIN archive[c] :
        d1 # d2 => DOMAIN archive[c][d1] \cap DOMAIN archive[c][d2] = {}

\* runs on two different days have each left files in the archive of a
\* camera
C24_Witness ==
    \E c \in Cams :
        /\ \A d \in { DateStr(1), DateStr(2) } :
              d \in DOMAIN archive[c] /\ DOMAIN archive[c][d] # {}
        /\ log # << >>

(***************************************************************************)
(* C26: in the archive of a camera every file of a later directory has a   *)
(* greater timestamp prefix than every file of an earlier directory, and   *)
(* the frontier that the GUI program has computed is a file outside        *)
(* today's directory whose prefix no file outside today's directory        *)
(* exceeds.                                                                *)
(***************************************************************************)
C26_FrontierIsMaximum ==
    \A c \in Cams :
        /\ \A d1, d2 \in DOMAIN archive[c] :
              StrLess(d1, d2) =>
                  \A n1 \in DOMAIN archive[c][d1] : \A n2 \in DOMAIN archive[c][d2] :
                      StrLess(Prefix(n1), Prefix(n2))
        /\ ( /\ program = "gui"
             /\ cam[c].has_last_file
             /\ cam[c].repository_last_file # SentinelFile ) =>
               /\ \E d \in DOMAIN archive[c] \ { cam[c].today_dir } :
                     cam[c].repository_last_file \in DOMAIN archive[c][d]
               /\ \A d \in DOMAIN archive[c] \ { cam[c].today_dir } :
                     \A n \in DOMAIN archive[c][d] :
                        ~StrLess(Prefix(cam[c].repository_last_file), Prefix(n))

\* on the second day the GUI program has taken the frontier from the
\* directory of the first day and has copied a newer file
C26_Witness ==
    \E c \in Cams :
        /\ program = "gui"
        /\ cam[c].today_dir = DateStr(2)
        /\ cam[c].has_last_file
        /\ DateStr(1) \in DOMAIN archive[c]
        /\ cam[c].repository_last_file \in DOMAIN archive[c][DateStr(1)]
        /\ \E i \in DOMAIN log : log[i].cam = c /\ log[i].ev = "copied"

(***************************************************************************)
(* C25, as stated: when find_repository_last_files has returned in the GUI *)
(* program, every camera with a source has a frontier.                     *)
(***************************************************************************)
C25_EveryCameraHasFrontier ==
    Located => \A c \in Cams : Cataloged(c) => cam[c].has_last_file

(***************************************************************************)
(* C27: when a 'Copy Files' action of the GUI program has run to its end,  *)
(* today's directory of a camera with sources exists only if it holds a    *)
(* file, and a today's directory that held files before the action is      *)
(* still there with those files.                                           *)
(***************************************************************************)
C27_NoEmptyTodayDirLeft ==
    [][ (GoStep /\ RunCompleted(log')) =>
          \A c \in Cams :
              Cataloged(c) =>
                  /\ cam[c].today_dir \in DOMAIN archive'[c] =>
                         DOMAIN archive'[c][cam[c].today_dir] # {}
                  /\ ( /\ cam[c].today_dir \in DOMAIN archive[c]
                       /\ DOMAIN archive[c][cam[c].today_dir] # {} ) =>
                         /\ cam[c].today_dir \in DOMAIN archive'[c]
                         /\ DOMAIN archive[c][cam[c].today_dir]
                                \subseteq DOMAIN archive'[c][cam[c].today_dir]
      ]_vars

\* a 'Copy Files' action has run to its end without copying a file for a
\* camera with sources, and today's directory of that camera is not there
C27_Witness ==
    /\ program = "gui"
    /\ RunCompleted(log)
    /\ \E c \in Cams :
          /\ Cataloged(c)
          /\ cam[c].files_with_times # << >>
          /\ cam[c].today_dir \notin DOMAIN archive[c]

\* sequence q has no element twice
NoRepeat(q) == \A i, j \in DOMAIN q : q[i] = q[j] => i = j

(***************************************************************************)
(* C28: in the GUI program, whatever has been clicked, no record is twice  *)
(* in a camera's files_with_times list, no source file has two records,    *)
(* and no source path is twice in its card_path_list.                      *)
(***************************************************************************)
C28_CatalogedOnce ==
    program = "gui" =>
        \A c \in Cams :
            /\ NoRepeat(cam[c].card_path_list)
            /\ NoRepeat([i \in Records(c) |-> Batch(c)[i][FILENAME]])

\* the sources are cataloged, the locator has ended in an exception, and
\* the 'Get Cam Cards' button is still enabled for another click
C28_Witness ==
    /\ program = "gui"
    /\ started
    /\ getcard_enabled
    /\ cam[CamOrder[1]].processed
    /\ \E c \in Cams : Batch(c) # << >>


(***************************************************************************)
(* C29: the copy step runs only after a completed getcard_clicked, and so  *)
(* never reads an undefined batch or frontier for a camera with files.     *)
(***************************************************************************)
\* the 'GO' button is enabled by a completed getcard_clicked only: the
\* sources are cataloged and 'Get Cam Cards' is disabled
AfterGetcard ==
    /\ started
    /\ ~getcard_enabled
    /\ \A c \in Cams : cam[c].processed

\* C29: every step of the 'GO' button comes after a completed
\* getcard_clicked, and copy_and_rename ends without a KeyError: it finds
\* the frontier of every camera whose batch it goes through
C29_CopyAfterLocated ==
    [][GoStep =>
          /\ AfterGetcard
          /\ \A k \in 1..Len(log') : log'[k].ev # "KeyError"]_vars

\* the ordering alone: 'GO' is never enabled before a completed
\* getcard_clicked
GoOnlyAfterGetcard == (program = "gui" /\ go_enabled) => AfterGetcard


(***************************************************************************)
(* The script del-no-vid.py: one run from its first line to its last, or   *)
(* to the exception that ends it.  An entry of the starting directory is a *)
(* plain file or a directory; of a directory the model keeps the names     *)
(* that os.listdir returns for it, each the name of a file or of a         *)
(* sub-directory.                                                          *)
(***************************************************************************)
\* a directory of the model holds at most MaxEntries names
MaxEntries == 2

\* targetFileTypes = [".mp4", ".avi", ".mov", ".wmv", ".flv"]
targetFileTypes == { << 46,109,112,52 >>, << 46,97,118,105 >>, << 46,109,111,118 >>, << 46,119,109,118 >>, << 46,102,108,118 >> }

\* the names found inside the directories: 'a.mp4', 'b.MOV', 'c.txt',
\* '.mp4' and 'd.mp4.bak'
InsideNames == { << 97,46,109,112,52 >>, << 98,46,77,79,86 >>, << 99,46,116,120,116 >>, << 46,109,112,52 >>, << 100,46,109,112,52,46,98,97,107 >> }

\* the names of the top level: 'one', 'two' and 'top.mp4'
One == << 111,110,101 >>
Two == << 116,119,111 >>
TopMp4 == << 116,111,112,46,109,112,52 >>

PlainFile == [kind |-> "file", inside |-> NoEntries]
Directory(inside) == [kind |-> "dir", inside |-> inside]

\* the directories with at most MaxEntries names inside, each name that of
\* a file or of a sub-directory
Directories ==
    { Directory(inside) :
        inside \in UNION { [S -> { "file", "dir" }] :
                             S \in { T \in SUBSET InsideNames : Cardinality(T) <= MaxEntries } } }

\* 'one' and 'two' are absent, plain files or directories; 'top.mp4' is
\* absent or a plain file
StartingDirs ==
    { [n \in (DOMAIN a) \cup (DOMAIN b) \cup (DOMAIN c) |->
          IF n \in DOMAIN a THEN a[n] ELSE IF n \in DOMAIN b THEN b[n] ELSE c[n]] :
        a \in { NoEntries } \cup { (One :> e) : e \in { PlainFile } \cup Directories },
        b \in { NoEntries } \cup { (Two :> e) : e \in { PlainFile } \cup Directories },
        c \in { NoEntries, (TopMp4 :> PlainFile) } }

\* p.rfind('.'), counted from 1; 0 when p has no dot
DotIndex(p) ==
    IF \E i \in 1..Len(p) : p[i] = Dot
    THEN CHOOSE i \in 1..Len(p) : p[i] = Dot /\ \A j \in (i + 1)..Len(p) : p[j] # Dot
    ELSE 0

\* os.path.splitext(filename), for a name without separators: the extension
\* starts at the last dot, unless only dots come before it
splitext(filename) ==
    LET dotIndex == DotIndex(filename)
    IN IF dotIndex > 0 /\ \E i \in 1..(dotIndex - 1) : filename[i] # Dot
       THEN << SubSeq(filename, 1, dotIndex - 1), SubSeq(filename, dotIndex, Len(filename)) >>
       ELSE << filename, << >> >>

\* the test of the extension without lower()
qualifies_as_written(filename) == splitext(filename)[2] \in targetFileTypes

\* name,ext = os.path.splitext(filename); ext.lower() in targetFileTypes
qualifies(filename) == Lower(splitext(filename)[2]) \in targetFileTypes

\* for root, dirs, files in os.walk(startingDir): break
dirs(top) == { n \in DOMAIN top : top[n].kind = "dir" }

\* os.listdir(startingDir+"\\"+dir): the names of the files and of the
\* sub-directories
listdir(top, dir) == DOMAIN top[dir].inside

\* delDir after the loop over filenames
delDir(top, dir) == \A filename \in listdir(top, dir) : ~qualifies(filename)

\* send2trash(startingDir+"\\"+dir) for every dir of the set sent
send2trash(top, sent) == [n \in (DOMAIN top) \ sent |-> top[n]]

\* one run of the script.  os.listdir and send2trash can raise OSError,
\* which ends the run: the directories sent to the trash before that are
\* some of those whose flag is set
del_no_vid ==
    /\ program = "del-no-vid"
    /\ \E raised \in BOOLEAN :
       \E sent \in SUBSET { dir \in dirs(startingDir) : delDir(startingDir, dir) } :
          /\ ~raised => sent = { dir \in dirs(startingDir) : delDir(startingDir, dir) }
          /\ startingDir' = send2trash(startingDir, sent)
          /\ trash' = trash \cup { [name |-> dir, entry |-> startingDir[dir]] : dir \in sent }
          /\ del_raised' = raised
    /\ UNCHANGED << archive, mounted, day, program, started, cam, getcard_enabled,
                    go_enabled, log, faults, ran, failed, repository_common_path, exited >>

InitDelNoVid ==
    /\ mounted = << >>
    /\ archive = [c \in Cams |-> EmptyArchive]
    /\ day = 1
    /\ program = "del-no-vid"
    /\ started = FALSE
    /\ cam = [c \in Cams |-> NoCam]
    /\ getcard_enabled = TRUE
    /\ go_enabled = FALSE
    /\ log = << >>
    /\ faults = 0
    /\ ran = FALSE
    /\ failed = {}
    /\ repository_common_path = CommonPath
    /\ exited = FALSE
    /\ startingDir \in StartingDirs
    /\ trash = {}
    /\ del_raised = FALSE

NextDelNoVid == del_no_vid

SpecDelNoVid == InitDelNoVid /\ [][NextDelNoVid]_vars

(***************************************************************************)
(* C30: what a run of del-no-vid does to the starting directory.           *)
(***************************************************************************)
\* the name ends in a dot and letters that, lowercased, spell a target
\* type, and something other than dots comes before that dot
HasVideoExtension(name) ==
    \E k \in 2..Len(name) :
        /\ name[k] = Dot
        /\ \A j \in (k + 1)..Len(name) : name[j] # Dot
        /\ \E i \in 1..(k - 1) : name[i] # Dot
        /\ \E t \in targetFileTypes :
              /\ Len(t) = Len(name) - k + 1
              /\ \A j \in 1..Len(t) :
                    \/ name[k + j - 1] = t[j]
                    \/ name[k + j - 1] \in 65..90 /\ name[k + j - 1] + 32 = t[j]

\* the directory has, directly inside it, a name with a video extension
HoldsVideo(entry) == \E name \in DOMAIN entry.inside : HasVideoExtension(name)

\* the step leaves the entry n where and as it is
Kept(n) ==
    /\ n \in DOMAIN startingDir'
    /\ startingDir'[n] = startingDir[n]
    /\ [name |-> n, entry |-> startingDir[n]] \notin trash' \ trash

\* the step moves the entry n, as it is, to the trash
Trashed(n) ==
    /\ n \notin DOMAIN startingDir'
    /\ [name |-> n, entry |-> startingDir[n]] \in trash'

====
